---- MODULE Spec2Model ----
(***************************************************************************)
(* Model of the LexiNotes vocabulary notebook (src/app.py): one JSON       *)
(* document on disk, loaded at the start of every request handler and      *)
(* saved wholesale by the handlers that mutate it.                         *)
(*                                                                         *)
(* Python strings are sequences of one-character strings, so that strip,   *)
(* lower, split/join and substring search are computed, not assumed.       *)
(* Python dicts are sequences of [key, val] records in insertion order.    *)
(***************************************************************************)
EXTENDS Integers, Sequences, FiniteSets, TLC

VARIABLES
    exists,  \* whether data.json exists (os.path.exists(DATA_FILE))
    file,    \* the document data.json holds, as save_data wrote it
    now,     \* the wall clock in whole seconds (int(datetime.now().timestamp()))
    nreq,    \* the number of requests served
    resp,    \* the last request: the handler, its inputs and what it answered
    inflight \* per server thread: the request it runs and the document it loaded

vars == <<exists, file, now, nreq, resp, inflight>>

---------------------------------------------------------------------------
(* Bounds of the exploration.                                              *)

\* number of requests served in one behaviour
MaxReq == 2
\* the last second of wall-clock time a behaviour reaches
MaxClock == 2

---------------------------------------------------------------------------
(* Strings.                                                                *)

Range(s) == {s[i] : i \in 1..Len(s)}

\* str.isspace for the characters of the model
WhiteSpace == {" ", "\t"}

UpperCase == <<"A", "B", "C", "D", "E", "F", "G", "H", "I", "J", "K", "L", "M",
               "N", "O", "P", "Q", "R", "S", "T", "U", "V", "W", "X", "Y", "Z">>

LowerCase == <<"a", "b", "c", "d", "e", "f", "g", "h", "i", "j", "k", "l", "m",
               "n", "o", "p", "q", "r", "s", "t", "u", "v", "w", "x", "y", "z">>

\* the characters of the model in code point order, as sorted() compares them
CodeOrder == <<"\t", " ", "(", ")">> \o UpperCase \o LowerCase

Ord(c) == CHOOSE i \in 1..Len(CodeOrder) : CodeOrder[i] = c

LowerChar(c) ==
    IF c \in Range(UpperCase)
    THEN LowerCase[CHOOSE i \in 1..Len(UpperCase) : UpperCase[i] = c]
    ELSE c

\* str.lower()
Lower(s) == [i \in 1..Len(s) |-> LowerChar(s[i])]

RECURSIVE LStrip(_)
LStrip(s) ==
    IF s # <<>> /\ Head(s) \in WhiteSpace THEN LStrip(Tail(s)) ELSE s

RECURSIVE RStrip(_)
RStrip(s) ==
    IF s # <<>> /\ s[Len(s)] \in WhiteSpace
    THEN RStrip(SubSeq(s, 1, Len(s) - 1))
    ELSE s

\* str.strip()
Strip(s) == RStrip(LStrip(s))

\* str.split(): the maximal runs of non-whitespace characters, in order
RECURSIVE Split(_)
Split(s) ==
    LET t == LStrip(s) IN
    IF t = <<>> THEN <<>>
    ELSE LET n == IF \E i \in 1..Len(t) : t[i] \in WhiteSpace
                  THEN (CHOOSE i \in 1..Len(t) :
                            /\ t[i] \in WhiteSpace
                            /\ \A j \in 1..(i - 1) : t[j] \notin WhiteSpace) - 1
                  ELSE Len(t)
         IN <<SubSeq(t, 1, n)>> \o Split(SubSeq(t, n + 1, Len(t)))

\* " ".join(parts)
RECURSIVE JoinSpace(_)
JoinSpace(parts) ==
    IF parts = <<>> THEN <<>>
    ELSE IF Len(parts) = 1 THEN parts[1]
    ELSE parts[1] \o <<" ">> \o JoinSpace(Tail(parts))

\* q in s, for strings
Contains(q, s) ==
    \E i \in 0..(Len(s) - Len(q)) : SubSeq(s, i + 1, i + Len(q)) = q

\* s < t in Python's string order
RECURSIVE StrLess(_, _)
StrLess(s, t) ==
    IF t = <<>> THEN FALSE
    ELSE IF s = <<>> THEN TRUE
    ELSE IF Head(s) = Head(t) THEN StrLess(Tail(s), Tail(t))
    ELSE Ord(Head(s)) < Ord(Head(t))

\* sorted(S) for a set of strings
RECURSIVE Sorted(_)
Sorted(S) ==
    IF S = {} THEN <<>>
    ELSE LET m == CHOOSE x \in S : \A y \in S \ {x} : StrLess(x, y)
         IN <<m>> \o Sorted(S \ {m})

---------------------------------------------------------------------------
(* Lists and dicts.                                                        *)

\* x in lst
In(x, lst) == \E i \in 1..Len(lst) : lst[i] = x

\* lst.remove(x) for a list that holds x: drops the first occurrence
ListRemove(lst, x) ==
    LET i == CHOOSE k \in 1..Len(lst) :
                 lst[k] = x /\ \A j \in 1..(k - 1) : lst[j] # x
    IN SubSeq(lst, 1, i - 1) \o SubSeq(lst, i + 1, Len(lst))

\* d.keys()
DictKeys(d) == [i \in 1..Len(d) |-> d[i].key]

\* k in d
HasKey(d, k) == \E i \in 1..Len(d) : d[i].key = k

\* d.get(k, default)
DictGet(d, k, default) ==
    IF HasKey(d, k) THEN d[CHOOSE i \in 1..Len(d) : d[i].key = k].val ELSE default

\* d[k] = v: in place for a key d holds, at the end for a new key
DictSet(d, k, v) ==
    IF HasKey(d, k)
    THEN [i \in 1..Len(d) |-> IF d[i].key = k THEN [key |-> k, val |-> v] ELSE d[i]]
    ELSE Append(d, [key |-> k, val |-> v])

\* d.pop(k, None)
DictPop(d, k) ==
    LET Other(e) == e.key # k IN SelectSeq(d, Other)

---------------------------------------------------------------------------
(* The document and its persistence.                                       *)

TopLevelKeys ==
    {"favorites", "pinned", "history", "general_notes", "word_notes", "word_tags"}

\* the document load_data creates when data.json does not exist
EmptyDoc ==
    [favorites |-> <<>>, pinned |-> <<>>, history |-> <<>>,
     general_notes |-> <<>>, word_notes |-> <<>>, word_tags |-> <<>>]

\* load_data without the back-fill of word_tags
load_data_NoBackfill(ex, f) == IF ~ex THEN EmptyDoc ELSE f

\* load_data(): the document it returns, given whether data.json exists (ex)
\* and the document stored in it (f)
load_data(ex, f) ==
    IF ~ex THEN EmptyDoc
    ELSE IF "word_tags" \notin DOMAIN f THEN f @@ ("word_tags" :> <<>>)
    ELSE f

\* data.json after load_data() returned: load_data saves the document it
\* created or back-filled, and otherwise leaves the file as it read it
AfterLoad == load_data(exists, file)

\* the five-key document of the releases before word_tags was added
LegacyDoc == [k \in TopLevelKeys \ {"word_tags"} |-> <<>>]

---------------------------------------------------------------------------
(* Program constants.                                                      *)

LANGUAGE_OPTIONS ==
    << [code |-> <<"e", "n">>, label |-> <<"E", "n", "g", "l", "i", "s", "h">>],
       [code |-> <<"h", "i">>, label |-> <<"H", "i", "n", "d", "i">>],
       [code |-> <<"s", "a">>, label |-> <<"S", "a", "n", "s", "k", "r", "i", "t">>],
       [code |-> <<"t", "a">>, label |-> <<"T", "a", "m", "i", "l">>],
       [code |-> <<"e", "s">>, label |-> <<"S", "p", "a", "n", "i", "s", "h">>],
       [code |-> <<"f", "r">>, label |-> <<"F", "r", "e", "n", "c", "h">>],
       [code |-> <<"d", "e">>, label |-> <<"G", "e", "r", "m", "a", "n">>],
       [code |-> <<"a", "l", "l">>,
        label |-> <<"A", "l", "l", " ", "l", "a", "n", "g", "u", "a", "g", "e", "s",
                    " ", "(", "a", "d", "v", "a", "n", "c", "e", "d", ")">>] >>

DEFAULT_LANGUAGE == <<"e", "n">>

---------------------------------------------------------------------------
(* Request inputs.                                                         *)

\* <word> of a route: any non-empty path segment
PathWords == {<<"a">>, <<"B">>}

\* the word field of the search form or query string
SearchWords == {<<" ">>, <<"a">>, <<" ", "B">>, <<"a", "n", " ">>}

\* the language field: a listed code, "all", an unlisted value
SearchLanguages == {<<"h", "i">>, <<"a", "l", "l">>, <<"X", " ", " ", "y">>}

\* <language> of a route; the handlers only pass it on to the redirect
PathLanguages == {<<"e", "n">>}

\* note_text of the note forms
NoteTexts == {<<" ">>, <<" ", "N", " ">>}

\* tag_text of the tag form
TagTexts == {<<" ", "\t">>, <<" ", "H", " ", " ", "N", " ">>, <<"h", "\t", "n">>}

\* <int:note_id> of the delete routes: the ids the clock can mint, and one more
NoteIds == (0..MaxClock) \cup {999}

\* the query of the global search
Queries == {<<" ">>, <<"N", " ">>, <<"z">>}

Methods == {"GET", "POST"}

\* what get_word_info returns to search: None or a lookup result
LookupOutcomes == {"none", "found"}

---------------------------------------------------------------------------
(* Read-only helpers of the program.                                       *)

\* data.get(k, default) on the document
DocGet(data, k, default) == IF k \in DOMAIN data THEN data[k] ELSE default

get_all_words(data) ==
    Sorted(Range(DocGet(data, "history", <<>>))
           \cup Range(DocGet(data, "favorites", <<>>))
           \cup Range(DocGet(data, "pinned", <<>>))
           \cup Range(DictKeys(DocGet(data, "word_notes", <<>>)))
           \cup Range(DictKeys(DocGet(data, "word_tags", <<>>))))

get_all_tags(data) ==
    LET wt == DocGet(data, "word_tags", <<>>)
    IN Sorted(UNION {Range(wt[i].val) : i \in 1..Len(wt)})

\* the threads of the development server app.run() starts: one per request
Threads == 1..MaxReq

\* no thread has taken a request
NoRequests == [t \in Threads |-> [pc |-> "idle"]]

---------------------------------------------------------------------------
(* Request handlers.  Each one is a single step: it loads the document,    *)
(* changes it in memory, saves it where the code saves it, and answers.    *)
(* A subscript of a key the document lacks raises KeyError: the request    *)
(* fails and the file stays as the last save (or load_data) left it.       *)

\* the end of a request: data.json holds `saved`, the client gets `r`
Served(saved, r) ==
    /\ nreq < MaxReq
    /\ nreq' = nreq + 1
    /\ exists' = TRUE
    /\ file' = saved
    /\ resp' = r
    /\ UNCHANGED <<now, inflight>>

\* the note both note forms build
NewNote(text, important) ==
    [id |-> now, text |-> text, important |-> important, created_at |-> now]

\* a toggle that appends without looking for the word
Toggled_AlwaysAppend(lst, word) == Append(lst, word)

\* if word in lst: lst.remove(word) else: lst.append(word)
Toggled(lst, word) ==
    IF In(word, lst) THEN ListRemove(lst, word) ELSE Append(lst, word)

toggle_favorite(language, word) ==
    LET data == AfterLoad IN
    IF "favorites" \notin DOMAIN data
    THEN Served(data, [op |-> "toggle_favorite", word |-> word, status |-> "KeyError"])
    ELSE Served([data EXCEPT !.favorites = Toggled(@, word)],
                [op |-> "toggle_favorite", word |-> word, status |-> "redirect"])

toggle_pin(language, word) ==
    LET data == AfterLoad IN
    IF "pinned" \notin DOMAIN data
    THEN Served(data, [op |-> "toggle_pin", word |-> word, status |-> "KeyError"])
    ELSE Served([data EXCEPT !.pinned = Toggled(@, word)],
                [op |-> "toggle_pin", word |-> word, status |-> "redirect"])

\* request value .strip() or DEFAULT_LANGUAGE, with "all" turned into the default
SearchLanguage(language_raw) ==
    LET l == IF Strip(language_raw) = <<>> THEN DEFAULT_LANGUAGE ELSE Strip(language_raw)
    IN IF l = <<"a", "l", "l">> THEN DEFAULT_LANGUAGE ELSE l

\* a history update that forgets to remove the earlier entry
RecordSearch_NoRemove(history, word) == <<word>> \o history

\* history update of search: newest first, no duplicates
RecordSearch(history, word) ==
    <<word>> \o (IF In(word, history) THEN ListRemove(history, word) ELSE history)

\* the label of the first option with this code, or the code itself
LangLabel(language) ==
    IF \E i \in 1..Len(LANGUAGE_OPTIONS) : LANGUAGE_OPTIONS[i].code = language
    THEN LANGUAGE_OPTIONS[CHOOSE i \in 1..Len(LANGUAGE_OPTIONS) :
             /\ LANGUAGE_OPTIONS[i].code = language
             /\ \A j \in 1..(i - 1) : LANGUAGE_OPTIONS[j].code # language].label
    ELSE language

\* the tag search stores for the language
AutoTag(language) == Lower(LangLabel(language))

\* word_tags after search's auto-tag step
AutoTagged(word_tags, word, auto_tag) ==
    LET tags == DictGet(word_tags, word, <<>>) IN
    IF In(auto_tag, tags)
    THEN DictSet(word_tags, word, tags)
    ELSE DictSet(word_tags, word, Append(tags, auto_tag))

search(method, word_raw, language_raw, info) ==
    LET data == AfterLoad
        word == Strip(word_raw)
        language == SearchLanguage(language_raw)
        r == [op |-> "search", method |-> method, word |-> word, language |-> language]
    IN
    IF method = "POST" \/ word = <<>>
    THEN Served(data, r @@ [status |-> "redirect"])
    ELSE IF "history" \notin DOMAIN data
    THEN Served(data, r @@ [status |-> "KeyError"])
    ELSE LET d1 == [data EXCEPT !.history = RecordSearch(@, word)]
             d2 == IF "word_tags" \notin DOMAIN d1
                   THEN d1 @@ ("word_tags" :> <<>>) ELSE d1
             d3 == [d2 EXCEPT !.word_tags = AutoTagged(@, word, AutoTag(language))]
         IN Served(d3, r @@ [info |-> info,
                             status |-> IF {"favorites", "pinned", "word_notes"}
                                            \subseteq DOMAIN d3
                                        THEN "ok" ELSE "KeyError"])

\* a notes handler that stores the note whatever its text
notes_NoBlankGuard(method, note_text, important) ==
    LET data == AfterLoad
        text == Strip(note_text)
        r == [op |-> "notes", method |-> method,
              text |-> IF method = "POST" THEN text ELSE <<>>]
    IN
    IF method = "POST"
    THEN Served([data EXCEPT !.general_notes = Append(@, NewNote(text, important))],
                r @@ [status |-> "redirect"])
    ELSE Served(data, r @@ [status |-> "ok"])

notes(method, note_text, important) ==
    LET data == AfterLoad
        text == Strip(note_text)
        r == [op |-> "notes", method |-> method,
              text |-> IF method = "POST" THEN text ELSE <<>>]
    IN
    IF method = "POST" /\ text = <<>>
    THEN Served(data, r @@ [status |-> "redirect"])
    ELSE IF "general_notes" \notin DOMAIN data
    THEN Served(data, r @@ [status |-> "KeyError"])
    ELSE IF method = "POST"
    THEN Served([data EXCEPT !.general_notes = Append(@, NewNote(text, important))],
                r @@ [status |-> "redirect"])
    ELSE Served(data, r @@ [status |-> "ok"])

delete_general_note(note_id) ==
    LET data == AfterLoad
        Keep(n) == n.id # note_id
        r == [op |-> "delete_general_note", note_id |-> note_id]
    IN
    IF "general_notes" \notin DOMAIN data
    THEN Served(data, r @@ [status |-> "KeyError"])
    ELSE Served([data EXCEPT !.general_notes = SelectSeq(@, Keep)],
                r @@ [status |-> "redirect"])

add_word_note(language, word, note_text, important) ==
    LET data == AfterLoad
        text == Strip(note_text)
        r == [op |-> "add_word_note", word |-> word, text |-> text]
    IN
    IF text = <<>>
    THEN Served(data, r @@ [status |-> "redirect"])
    ELSE IF "word_notes" \notin DOMAIN data
    THEN Served(data, r @@ [status |-> "KeyError"])
    ELSE Served([data EXCEPT !.word_notes =
                     DictSet(@, word, Append(DictGet(@, word, <<>>),
                                             NewNote(text, important)))],
                r @@ [status |-> "redirect"])

\* a delete that stores the list it is left with, empty or not
delete_word_note_KeepsEmpty(language, word, note_id) ==
    LET data == AfterLoad
        Keep(n) == n.id # note_id
    IN Served([data EXCEPT !.word_notes =
                   DictSet(@, word, SelectSeq(DictGet(@, word, <<>>), Keep))],
              [op |-> "delete_word_note", word |-> word, note_id |-> note_id,
               status |-> "redirect"])

delete_word_note(language, word, note_id) ==
    LET data == AfterLoad
        Keep(n) == n.id # note_id
        r == [op |-> "delete_word_note", word |-> word, note_id |-> note_id]
    IN
    IF "word_notes" \notin DOMAIN data
    THEN Served(data, r @@ [status |-> "KeyError"])
    ELSE LET kept == SelectSeq(DictGet(data.word_notes, word, <<>>), Keep)
         IN Served([data EXCEPT !.word_notes =
                        IF kept # <<>> THEN DictSet(@, word, kept) ELSE DictPop(@, word)],
                   r @@ [status |-> "redirect"])

\* a normalisation that forgets to lower-case
NormalizeTag_NoLower(tag_text) == JoinSpace(Split(tag_text))

\* " ".join(tag_text.lower().split())
NormalizeTag(tag_text) == JoinSpace(Split(Lower(tag_text)))

add_word_tag(language, word, tag_text_raw) ==
    LET data == AfterLoad
        tag_text == Strip(tag_text_raw)
        normalized == NormalizeTag(tag_text)
        r == [op |-> "add_word_tag", word |-> word, tag_text |-> tag_text_raw,
              status |-> "redirect"]
        d1 == IF "word_tags" \notin DOMAIN data
              THEN data @@ ("word_tags" :> <<>>) ELSE data
        tags == DictGet(d1.word_tags, word, <<>>)
    IN
    IF tag_text = <<>> \/ normalized = <<>> \/ In(normalized, tags)
    THEN Served(data, r)
    ELSE Served([d1 EXCEPT !.word_tags = DictSet(@, word, Append(tags, normalized))], r)

delete_history_item(word_raw) ==
    LET data == AfterLoad
        word == Strip(word_raw)
        Keep(w) == w # word
        r == [op |-> "delete_history_item", word |-> word]
    IN
    IF word = <<>>
    THEN Served(data, r @@ [status |-> "redirect"])
    ELSE IF "history" \notin DOMAIN data
    THEN Served(data, r @@ [status |-> "KeyError"])
    ELSE Served([data EXCEPT !.history = SelectSeq(@, Keep)],
                r @@ [status |-> "redirect"])

clear_history ==
    LET data == AfterLoad IN
    Served(IF "history" \in DOMAIN data
           THEN [data EXCEPT !.history = <<>>]
           ELSE data @@ ("history" :> <<>>),
           [op |-> "clear_history", status |-> "redirect"])

\* word_note_matches of search_all: the matching notes with their word, in
\* the order of the dict and of each note list
RECURSIVE WordNoteMatches(_, _)
WordNoteMatches(word_notes, q) ==
    IF word_notes = <<>> THEN <<>>
    ELSE LET e == Head(word_notes)
             Match(n) == Contains(q, Lower(n.text))
             ms == SelectSeq(e.val, Match)
         IN [i \in 1..Len(ms) |-> [word |-> e.key, note |-> ms[i]]]
            \o WordNoteMatches(Tail(word_notes), q)

\* tag_matches of search_all
RECURSIVE TagMatches(_, _)
TagMatches(word_tags, q) ==
    IF word_tags = <<>> THEN <<>>
    ELSE LET e == Head(word_tags)
             Match(t) == Contains(q, Lower(t))
             ms == SelectSeq(e.val, Match)
         IN [i \in 1..Len(ms) |-> [word |-> e.key, tag |-> ms[i]]]
            \o TagMatches(Tail(word_tags), q)

\* a global search that compares the query as typed with the lower-cased texts
SearchAllResults_NoLower(data, query) ==
    LET MatchNote(n) == Contains(query, Lower(n.text))
    IN [words |-> Sorted({w \in Range(get_all_words(data)) : Contains(query, Lower(w))}),
        general_notes |-> SelectSeq(data.general_notes, MatchNote),
        word_notes |-> WordNoteMatches(DocGet(data, "word_notes", <<>>), query),
        tags |-> TagMatches(DocGet(data, "word_tags", <<>>), query)]

\* the results dict search_all builds for a non-empty query
SearchAllResults(data, query) ==
    LET q == Lower(query)
        word_candidates ==
            Range(data.history) \cup Range(data.favorites) \cup Range(data.pinned)
            \cup Range(DictKeys(DocGet(data, "word_notes", <<>>)))
            \cup Range(DictKeys(DocGet(data, "word_tags", <<>>)))
        MatchNote(n) == Contains(q, Lower(n.text))
    IN [words |-> Sorted({w \in word_candidates : Contains(q, Lower(w))}),
        general_notes |-> SelectSeq(data.general_notes, MatchNote),
        word_notes |-> WordNoteMatches(DocGet(data, "word_notes", <<>>), q),
        tags |-> TagMatches(DocGet(data, "word_tags", <<>>), q)]

\* results is None (<<>>) or the results dict (<<results>>)
search_all(method, query_raw) ==
    LET data == AfterLoad
        query == Strip(query_raw)
        r == [op |-> "search_all", method |-> method, query |-> query_raw]
    IN
    IF method = "POST"
    THEN Served(data, r @@ [status |-> "redirect"])
    ELSE IF query = <<>>
    THEN Served(data, r @@ [status |-> "ok", results |-> <<>>])
    ELSE IF ~({"history", "favorites", "pinned", "general_notes"} \subseteq DOMAIN data)
    THEN Served(data, r @@ [status |-> "KeyError"])
    ELSE Served(data, r @@ [status |-> "ok",
                            results |-> <<SearchAllResults(data, query)>>])

\* sum(len(v) for v in d.values())
RECURSIVE SumLens(_)
SumLens(d) == IF d = <<>> THEN 0 ELSE Len(Head(d).val) + SumLens(Tail(d))

backup ==
    LET data == AfterLoad IN
    Served(data,
           [op |-> "backup", status |-> "ok",
            total_words |-> Len(get_all_words(data)),
            total_notes |-> Len(DocGet(data, "general_notes", <<>>))
                            + SumLens(DocGet(data, "word_notes", <<>>)),
            total_tags |-> Len(get_all_tags(data))])

\* the attachment is the document load_data returned
export_json ==
    LET data == AfterLoad IN
    Served(data, [op |-> "export_json", status |-> "ok", data |-> data])

\* a second of wall-clock time passes between two requests
Tick ==
    /\ now < MaxClock
    /\ now' = now + 1
    /\ UNCHANGED <<exists, file, nreq, resp, inflight>>

---------------------------------------------------------------------------
(* The notebook at process start: no data.json (a fresh install), the      *)
(* empty five-key data.json of an earlier release, or a data.json that     *)
(* earlier requests wrote; then any requests.                              *)

OldNote(id, important) ==
    [id |-> id, text |-> <<"N">>, important |-> important, created_at |-> id]

\* A document of a notebook in use.  These requests write it, starting from
\* no data.json at second 0: toggle_favorite(a), toggle_pin(B), search(a, en), search(an, hi), search(B, en),
\* add_word_tag(B, "h n"), notes("N", on), add_word_note(a, "N", on),
\* add_word_note(B, "N", off); and at second 1: notes("N", off),
\* add_word_note(B, "N", on).
UsedDoc ==
    [favorites |-> << <<"a">> >>,
     pinned |-> << <<"B">> >>,
     history |-> << <<"B">>, <<"a", "n">>, <<"a">> >>,
     general_notes |-> <<OldNote(0, TRUE), OldNote(1, FALSE)>>,
     word_notes |-> << [key |-> <<"a">>, val |-> <<OldNote(0, TRUE)>>],
                       [key |-> <<"B">>, val |-> <<OldNote(0, FALSE), OldNote(1, TRUE)>>] >>,
     word_tags |-> << [key |-> <<"a">>, val |-> << <<"e", "n", "g", "l", "i", "s", "h">> >>],
                      [key |-> <<"a", "n">>, val |-> << <<"h", "i", "n", "d", "i">> >>],
                      [key |-> <<"B">>, val |-> << <<"e", "n", "g", "l", "i", "s", "h">>,
                                                    <<"h", " ", "n">> >>] >>]

Init ==
    /\ exists \in BOOLEAN
    /\ file \in IF exists THEN {LegacyDoc, UsedDoc} ELSE {<<>>}
    \* second 1: the newest note of UsedDoc was written in the current second
    /\ now = 1
    /\ nreq = 0
    /\ resp = [op |-> "none", status |-> "none"]
    /\ inflight = NoRequests

Next ==
    \/ \E l \in PathLanguages, w \in PathWords : toggle_favorite(l, w)
    \/ \E l \in PathLanguages, w \in PathWords : toggle_pin(l, w)
    \/ \E m \in Methods, w \in SearchWords, l \in SearchLanguages, i \in LookupOutcomes :
           search(m, w, l, i)
    \/ \E m \in Methods, t \in NoteTexts, i \in BOOLEAN : notes(m, t, i)
    \/ \E id \in NoteIds : delete_general_note(id)
    \/ \E l \in PathLanguages, w \in PathWords, t \in NoteTexts, i \in BOOLEAN :
           add_word_note(l, w, t, i)
    \/ \E l \in PathLanguages, w \in PathWords, id \in NoteIds : delete_word_note(l, w, id)
    \/ \E l \in PathLanguages, w \in PathWords, t \in TagTexts : add_word_tag(l, w, t)
    \/ \E w \in SearchWords : delete_history_item(w)
    \/ clear_history
    \/ \E m \in Methods, q \in Queries : search_all(m, q)
    \/ backup
    \/ export_json
    \/ Tick

Spec == Init /\ [][Next]_vars

---------------------------------------------------------------------------
(* The persistence gateway on any stored document: data.json holds any     *)
(* subset of the six keys, each empty or as in UsedDoc; the requests are   *)
(* handlers that run on every such document.                               *)

StoredDocs ==
    {[k \in K |-> IF k \in F THEN UsedDoc[k] ELSE <<>>] :
        K \in SUBSET TopLevelKeys, F \in SUBSET TopLevelKeys}

InitLoad ==
    /\ exists \in BOOLEAN
    /\ file \in IF exists THEN StoredDocs ELSE {<<>>}
    /\ now = 1
    /\ nreq = 0
    /\ resp = [op |-> "none", status |-> "none"]
    /\ inflight = NoRequests

NextLoad ==
    \/ export_json
    \/ backup
    \/ clear_history
    \/ \E l \in PathLanguages, w \in PathWords : toggle_favorite(l, w)

SpecLoad == InitLoad /\ [][NextLoad]_vars

---------------------------------------------------------------------------
(* Properties.                                                             *)

\* a request was served in this step
Request == nreq' # nreq

NoDuplicates(lst) == \A i, j \in 1..Len(lst) : lst[i] = lst[j] => i = j

Count(x, lst) == Cardinality({i \in 1..Len(lst) : lst[i] = x})

\* lst without every occurrence of x
Without(lst, x) == LET Other(e) == e # x IN SelectSeq(lst, Other)

\* favorites after toggle_favorite(w) ran twice in a row on the stored document
FavoritesToggledTwice(w) == Toggled(Toggled(AfterLoad.favorites, w), w)

\* C1 as stated: for every word w and every reachable favorites list,
\* toggle_favorite(w) called twice in a row leaves favorites with its original
\* content in its original order.
C1_ToggleTwiceKeepsOrder ==
    \A w \in PathWords : FavoritesToggledTwice(w) = AfterLoad.favorites

\* C1 amended: toggle_favorite(w) called twice in a row leaves favorites with
\* its original members, each once; the order is the original one when w was
\* absent or the last element, and otherwise w has moved to the end while the
\* other words keep their relative order.
C1_ToggleTwiceKeepsContent ==
    \A w \in PathWords :
        LET f == AfterLoad.favorites
            r == FavoritesToggledTwice(w)
        IN /\ Range(r) = Range(f)
           /\ Len(r) = Len(f)
           /\ NoDuplicates(r)
           /\ Without(r, w) = Without(f, w)
           /\ (~In(w, f) \/ f[Len(f)] = w) => r = f
           /\ In(w, f) => r[Len(r)] = w

\* toggle_favorite has run and left a list whose first word is not its last:
\* toggling that first word twice moves it
C1_Witness ==
    /\ resp.op = "toggle_favorite"
    /\ resp.status = "redirect"
    /\ Len(file.favorites) >= 2
    /\ \E w \in PathWords : In(w, file.favorites) /\ FavoritesToggledTwice(w) # file.favorites

\* a search for a non-empty word was served in this step
SearchServed ==
    /\ Request
    /\ resp'.op = "search"
    /\ resp'.method = "GET"
    /\ resp'.word # <<>>

\* C2: while history is duplicate-free it stays so under every request, and
\* a search for a non-empty word w leaves history with exactly one w, at
\* index 0, the other words in their previous relative order.
C2_SearchMovesWordToFront ==
    [][/\ NoDuplicates(AfterLoad.history) => NoDuplicates(AfterLoad'.history)
       /\ SearchServed =>
            /\ resp'.status = "ok"
            /\ Count(resp'.word, file'.history) = 1
            /\ file'.history[1] = resp'.word
            /\ NoDuplicates(file'.history)
            /\ Without(file'.history, resp'.word)
                   = Without(AfterLoad.history, resp'.word)]_vars

\* a search brought the oldest of three words to the front
C2_Witness ==
    /\ resp.op = "search"
    /\ resp.status = "ok"
    /\ resp.word = <<"a">>
    /\ file.history = << <<"a">>, <<"B">>, <<"a", "n">> >>

\* the ids of the notes of a list
NoteIdsOf(lst) == {lst[i].id : i \in 1..Len(lst)}

\* a note was appended to general_notes in this step
GeneralNoteAdded ==
    /\ Request
    /\ resp'.op = "notes"
    /\ resp'.method = "POST"
    /\ resp'.text # <<>>

\* a note was appended to word_notes[resp'.word] in this step
WordNoteAdded ==
    /\ Request
    /\ resp'.op = "add_word_note"
    /\ resp'.text # <<>>

\* C3 as stated: the id of a note created by add_general_note or
\* add_word_note differs from the id of every note already in its
\* collection, also when two notes are created within one clock second.
C3_NewNoteIdIsFresh ==
    [][/\ GeneralNoteAdded =>
            file'.general_notes[Len(file'.general_notes)].id
                \notin NoteIdsOf(AfterLoad.general_notes)
       /\ WordNoteAdded =>
            LET after == DictGet(file'.word_notes, resp'.word, <<>>)
            IN after[Len(after)].id
                   \notin NoteIdsOf(DictGet(AfterLoad.word_notes, resp'.word, <<>>))]_vars

\* export_json answered in this step with the document load_data returned
Loaded == Request /\ resp'.op = "export_json"

RECURSIVE CollapseSpaces(_)
CollapseSpaces(s) ==
    IF s = <<>> THEN <<>>
    ELSE IF Head(s) \in WhiteSpace
    THEN (IF Tail(s) # <<>> /\ Head(Tail(s)) \notin WhiteSpace THEN <<" ">> ELSE <<>>)
         \o CollapseSpaces(Tail(s))
    ELSE <<LowerChar(Head(s))>> \o CollapseSpaces(Tail(s))

TagNormalForm(t) ==
    LET c == CollapseSpaces(t) IN IF c # <<>> /\ Head(c) = " " THEN Tail(c) ELSE c

Blank(s) == \A i \in 1..Len(s) : s[i] \in WhiteSpace

\* C5: add_word_tag stores and compares the normalized form: after
\* add_word_tag(w, t) the tags of w hold the normalized form of t exactly
\* once (appended when it was not yet there, and nothing changes when it
\* was, so two texts with one normalized form leave one tag), and a text
\* whose normalized form is empty changes nothing.
C5_AddTagStoresNormalForm ==
    [][(Request /\ resp'.op = "add_word_tag") =>
         LET n == TagNormalForm(resp'.tag_text)
             before == DictGet(AfterLoad.word_tags, resp'.word, <<>>)
             after == DictGet(file'.word_tags, resp'.word, <<>>)
         IN /\ resp'.status = "redirect"
            /\ IF n = <<>> \/ In(n, before)
               THEN file' = AfterLoad
               ELSE /\ after = Append(before, n)
                    /\ file' = [AfterLoad EXCEPT !.word_tags = DictSet(@, resp'.word, after)]
            /\ n # <<>> => Count(n, after) = 1]_vars

\* the second of two requests added "h<TAB>n" to a word whose only tag is
\* "h n", stored once
C5_Witness ==
    /\ resp.op = "add_word_tag"
    /\ resp.tag_text = <<"h", "\t", "n">>
    /\ nreq = 2
    /\ file.word_tags = << [key |-> resp.word, val |-> << <<"h", " ", "n">> >>] >>

\* the words known through history, favorites, pinned and the tag keys
KnownWithoutNotes(data) ==
    Range(data.history) \cup Range(data.favorites) \cup Range(data.pinned)
    \cup {data.word_tags[i].key : i \in 1..Len(data.word_tags)}

\* C6: no key of word_notes maps to an empty list; delete_word_note(w, id)
\* leaves no note of w with that id, so deleting the last note of w removes
\* the key w; and a word without a word_notes key is in get_all_words only
\* if it is in history, favorites, pinned or the keys of word_tags.
C6_NoEmptyNoteList ==
    LET data == AfterLoad IN
    /\ \A i \in 1..Len(data.word_notes) : data.word_notes[i].val # <<>>
    /\ resp.op = "delete_word_note" =>
           resp.note_id \notin NoteIdsOf(DictGet(data.word_notes, resp.word, <<>>))
    /\ \A w \in PathWords \cup {Strip(x) : x \in SearchWords} :
           ~HasKey(data.word_notes, w) =>
               (In(w, get_all_words(data)) <=> w \in KnownWithoutNotes(data))

\* delete_word_note removed the only note of a word known through nothing
\* else: the key is gone and the word is no longer among all words
C6_Witness ==
    /\ resp.op = "delete_word_note"
    /\ nreq = 2
    /\ file.word_notes = <<>>
    /\ ~In(resp.word, get_all_words(file))
    /\ resp.note_id = 1

\* q occurs in s, case-insensitively
ContainsCI(q, s) == Contains(Lower(q), Lower(s))

\* the places <<i, j>> of the items of the lists of a dict
Places(d) == UNION {{<<i, j>> : j \in 1..Len(d[i].val)} : i \in 1..Len(d)}

\* C7: search_all with an empty or whitespace-only query has no results
\* (None); with any other query it has the four groups, each holding exactly
\* the words, general notes, word notes (with their word) and tags (with
\* their word) whose text contains the query case-insensitively.
C7_SearchAllGroups ==
    (resp.op = "search_all" /\ resp.method = "GET") =>
        LET q == Strip(resp.query)
            gn == file.general_notes
            wn == file.word_notes
            wt == file.word_tags
        IN IF Blank(resp.query)
           THEN resp.status = "ok" /\ resp.results = <<>>
           ELSE /\ resp.status = "ok"
                /\ Len(resp.results) = 1
                /\ DOMAIN resp.results[1] = {"words", "general_notes", "word_notes", "tags"}
                /\ LET res == resp.results[1] IN
                   /\ NoDuplicates(res.words)
                   /\ Range(res.words) =
                          {w \in KnownWithoutNotes(file) \cup Range(DictKeys(wn)) :
                               ContainsCI(q, w)}
                   /\ Range(res.general_notes) = {n \in Range(gn) : ContainsCI(q, n.text)}
                   /\ Len(res.general_notes) =
                          Cardinality({i \in 1..Len(gn) : ContainsCI(q, gn[i].text)})
                   /\ Range(res.word_notes) =
                          UNION {{[word |-> wn[i].key, note |-> n] :
                                      n \in {m \in Range(wn[i].val) : ContainsCI(q, m.text)}} :
                                 i \in 1..Len(wn)}
                   /\ Len(res.word_notes) =
                          Cardinality({ij \in Places(wn) :
                                          ContainsCI(q, wn[ij[1]].val[ij[2]].text)})
                   /\ Range(res.tags) =
                          UNION {{[word |-> wt[i].key, tag |-> t] :
                                      t \in {u \in Range(wt[i].val) : ContainsCI(q, u)}} :
                                 i \in 1..Len(wt)}
                   /\ Len(res.tags) =
                          Cardinality({ij \in Places(wt) :
                                          ContainsCI(q, wt[ij[1]].val[ij[2]])})

\* a query with a match in every group
C7_Witness ==
    /\ resp.op = "search_all"
    /\ resp.method = "GET"
    /\ resp.status = "ok"
    /\ Len(resp.results) = 1
    /\ resp.results[1].words # <<>>
    /\ resp.results[1].general_notes # <<>>
    /\ resp.results[1].word_notes # <<>>
    /\ resp.results[1].tags # <<>>

\* C8 as stated: delete_general_note(id) raises no error and leaves
\* favorites, pinned, history, word_notes and word_tags unchanged; with an id
\* no general note carries it leaves general_notes unchanged, and with a
\* present id it removes that one note and leaves every other note unchanged.
C8_DeleteRemovesOneNote ==
    [][(Request /\ resp'.op = "delete_general_note") =>
         LET before == AfterLoad.general_notes
             after == file'.general_notes
             Other(n) == n.id # resp'.note_id
         IN /\ resp'.status = "redirect"
            /\ \A k \in TopLevelKeys \ {"general_notes"} : file'[k] = AfterLoad[k]
            /\ IF resp'.note_id \in NoteIdsOf(before)
               THEN Len(after) = Len(before) - 1 /\ after = SelectSeq(before, Other)
               ELSE after = before]_vars

\* C9 as stated: a search for a non-empty word, found or not, leaves the
\* lower-cased language label among the tags of the word, and after any
\* searches and manual tag additions every stored tag equals its own
\* normalized form and no tag list holds a duplicate.
C9_EveryTagNormalized ==
    LET wt == AfterLoad.word_tags IN
    /\ (resp.op = "search" /\ resp.status = "ok") =>
           In(Lower(LangLabel(resp.language)), DictGet(wt, resp.word, <<>>))
    /\ \A i \in 1..Len(wt) :
           /\ NoDuplicates(wt[i].val)
           /\ \A j \in 1..Len(wt[i].val) : wt[i].val[j] = TagNormalForm(wt[i].val[j])

\* the request of this step came with an empty or whitespace-only input
BlankInput ==
    /\ Request
    /\ \/ resp'.op \in {"search", "delete_history_item"} /\ resp'.word = <<>>
       \/ resp'.op = "notes" /\ resp'.method = "POST" /\ resp'.text = <<>>
       \/ resp'.op = "add_word_note" /\ resp'.text = <<>>
       \/ resp'.op = "add_word_tag" /\ Blank(resp'.tag_text)

\* C10: a request with an empty or whitespace-only note text, tag text or
\* word returns normally (a redirect) and leaves the document unchanged in
\* every field: a load after it returns what a load before it returned.
C10_BlankInputChangesNothing ==
    [][BlankInput => /\ resp'.status = "redirect"
                     /\ AfterLoad' = AfterLoad
                     /\ file' = AfterLoad]_vars

\* a blank note text was posted to a notebook in use, which is as it was
C10_Witness ==
    /\ resp.op = "notes"
    /\ resp.method = "POST"
    /\ resp.text = <<>>
    /\ file = UsedDoc

---------------------------------------------------------------------------
(* Requests served by concurrent threads.  app.run() serves every request  *)
(* in a thread of its own and no handler takes a lock, so between the      *)
(* load_data() and the save_data() of one toggle request another request   *)
(* can load and save.  Each thread serves one toggle request in two steps. *)

ToggleOps == {"toggle_favorite", "toggle_pin"}

\* the list a toggle handler changes
ToggleKey(op) == IF op = "toggle_favorite" THEN "favorites" ELSE "pinned"

\* data = load_data() of toggle_favorite / toggle_pin in thread t
BeginToggle(t, op, word) ==
    /\ inflight[t].pc = "idle"
    /\ nreq < MaxReq
    /\ nreq' = nreq + 1
    /\ exists' = TRUE
    /\ file' = AfterLoad
    /\ inflight' = [inflight EXCEPT ![t] =
                        [pc |-> "loaded", op |-> op, word |-> word, data |-> AfterLoad]]
    /\ UNCHANGED <<now, resp>>

\* the document a toggle request saves: the one it loaded, with the word toggled
ToggleApplied(req) ==
    [req.data EXCEPT ![ToggleKey(req.op)] = Toggled(@, req.word)]

\* the rest of the handler in thread t: toggle in memory, save_data(data), redirect
FinishToggle(t) ==
    /\ inflight[t].pc = "loaded"
    /\ file' = ToggleApplied(inflight[t])
    /\ resp' = [op |-> inflight[t].op, word |-> inflight[t].word, status |-> "redirect"]
    /\ inflight' = [inflight EXCEPT ![t].pc = "done"]
    /\ UNCHANGED <<exists, now, nreq>>

NextConcurrent ==
    \/ \E t \in Threads, op \in ToggleOps, w \in PathWords : BeginToggle(t, op, w)
    \/ \E t \in Threads : FinishToggle(t)

SpecConcurrent == Init /\ [][NextConcurrent]_vars

\* the requests that returned
Completed == {t \in Threads : inflight[t].pc = "done"}

\* the word of request t is in its list in document d
Member(t, d) == In(inflight[t].word, d[ToggleKey(inflight[t].op)])

\* C11 as stated: no update is lost, however the load and save steps of the
\* requests interleave: once every request begun has returned, data.json
\* holds the effect of each completed toggle whose word and list no other
\* request toggled, that is, the word's membership is the opposite of what
\* the request loaded.
C11_NoLostUpdate ==
    (\A t \in Threads : inflight[t].pc # "loaded") =>
        \A t \in Completed :
            (\A u \in Completed \ {t} :
                 <<inflight[u].op, inflight[u].word>> # <<inflight[t].op, inflight[t].word>>)
            => (Member(t, file) # Member(t, inflight[t].data))

====
